---- MODULE Spec2Model ----
(***************************************************************************)
(* State-machine model of the VizKit charting core:                        *)
(*   - CanvasRenderer  (layered surfaces, animation-frame scheduler)       *)
(*   - CanvasLayer     (one surface: sizes, context transform, bitmap)     *)
(*   - Chart           (renderable buckets, render pass)                   *)
(*   - EventManager    (raw input normalisation and listener dispatch)     *)
(*   - ObjectPool      (acquire / release of reusable objects)             *)
(*   - CoordinateSystem (plot bounds, data <-> screen, clamping)           *)
(*   - ScaleManager    (computeDomain, createScale)                        *)
(*   - BarChart        (bar geometry and findBarAtPoint)                   *)
(*   - LineChart       (cached path over the d3 scales it is given)        *)
(* Each component has its own specification over the shared variables; the *)
(* variables of the other components stay at their constructed values.     *)
(***************************************************************************)
EXTENDS Integers, Sequences, FiniteSets, TLC

VARIABLES
  \* ---- CanvasRenderer -------------------------------------------------
  animationFrameId,  \* CanvasRenderer.animationFrameId (Null or a handle)
  layers,            \* keys of CanvasRenderer.layers (the live surfaces)
  \* ---- the browser's animation-frame machinery ------------------------
  callbacks,         \* the pending animation-frame callbacks, by handle
  callbackHandles,   \* handles still to be processed in the frame being run
  running,           \* handle of the frame callback executing now, or Null
  nextHandle,        \* next handle requestAnimationFrame returns
  \* ---- history of the scheduler (observations only) -------------------
  calls,             \* handles of the scheduleRender calls since the last frame began
  frameCalls,        \* value of calls when the current/last frame began
  ran,               \* callbacks executed by the current/last frame, in order
  executed,          \* every callback that has started executing
  voided,            \* callbacks scheduled before a cancelRender()/destroy() returned
  rendererDestroyed, \* CanvasRenderer.destroy() has returned
  lateCalls,         \* callbacks passed to scheduleRender after destroy() returned
  \* ---- EventManager ---------------------------------------------------
  canvasListeners,   \* event types with a raw listener attached to the canvas
  boundListeners,    \* keys of EventManager.boundListeners
  handlers,          \* EventManager.handlers: type -> Set of listeners, in insertion order
  dispatch,          \* the handleEvent call in progress (its for-of over the Set)
  \* ---- history of the EventManager (observations only) ----------------
  registered,        \* type -> listeners registered by on() and not removed since
  before,            \* type -> pairs <<a, b>>: a's registration precedes b's
  dupOn,             \* <<type>> when the latest API call was on(type, h) for a registered pair, else <<>>
  lastRaw,           \* <<type, class, number of touches>> of the latest raw input, or <<>>
  handlersBefore,    \* handlers when the latest raw input arrived
  invokedLog,        \* listeners invoked for the latest raw input, in order
  outcome,           \* how the latest raw input ended
  thrown,            \* a listener threw during the latest raw input
  destroyed,         \* EventManager.destroy() has returned
  invokedAfterDestroy, \* a listener was invoked after destroy() returned
  \* ---- ObjectPool (the PointPool instance) ----------------------------
  heap,              \* the Point objects the factory has created, by identity
  pool,              \* ObjectPool.pool: object identities, top of stack last
  lastAcquire,       \* <<object, its fields>> as returned by the latest acquire(), or <<>>
  holders,           \* per object, the acquire() calls that returned it since it was
                     \* created or last passed to release()
  \* ---- CanvasRenderer and its CanvasLayers ----------------------------
  renderer,          \* CanvasRenderer.width, .height and .dpr
  canvas,            \* per surface: style size, canvas.width/height, dpr, context transform
  pixels,            \* per surface, the cells of its bitmap that hold paint
  dirty,             \* per surface, CanvasLayer.isDirty
  resizes,           \* <<n, w, h>>: n resize calls so far (counted up to MaxResizes), the latest resize(w, h); else <<>>
  \* ---- Chart ---------------------------------------------------------
  objects,           \* the renderable objects created, by identity: layer and visible
  renderables,       \* Chart.renderables: layer -> renderables in insertion order
  config,            \* Chart.config: width, height and margin
  \* ---- CoordinateSystem ----------------------------------------------
  coord,             \* CoordinateSystem.width, .height and .margin
  calc,              \* the calls made on the coordinate system since it last changed:
                     \* <<>>, <<op, p, result>> or <<op, p, result, op2, result2>>
  \* ---- history of the Chart (observations only) -----------------------
  addLog,            \* the renderables passed to add(), in call order
  invoked,           \* the renderables whose render the latest Chart.render() called
  lastRender,        \* how the latest Chart.render() ended
  lastUpdate,        \* <<width, height, margin>> arguments of the latest Chart.update(), or <<>>
  \* ---- ScaleManager ---------------------------------------------------
  scaleCall,         \* a ScaleManager call: <<method, arguments>> when about to be made,
                     \* <<method, arguments, outcome>> when made; <<>> for none
  \* ---- BarChart -------------------------------------------------------
  bar,               \* BarChart.config: data, scales, barPadding, orientation, visible
  drawn,             \* whether render() ran since the chart last changed, and the
                     \* rectangles of its fillRect calls, by data index
  hit,               \* <<x, y, result>> of the latest findBarAtPoint(x, y), or <<>>
  \* ---- LineChart and the d3 scales it is given ------------------------
  d3scales,          \* the scale objects created, by identity: type, domain, range
  lineChart,         \* LineChart.config (data, xScale, yScale, visible) and LineChart.path
  stroked            \* <<>>, or what the latest LineChart.render() did since the last
                     \* change: <<"return">> or <<"stroke", path>>

schedVars == <<animationFrameId, callbacks, callbackHandles, running, nextHandle,
               calls, frameCalls, ran, executed, voided, rendererDestroyed, lateCalls>>

evVars == <<canvasListeners, boundListeners, handlers, dispatch, registered, before,
            dupOn, lastRaw, handlersBefore, invokedLog, outcome, thrown, destroyed,
            invokedAfterDestroy>>

poolVars == <<heap, pool, lastAcquire, holders>>

surfaceVars == <<renderer, canvas, pixels, dirty, resizes>>

chartVars == <<objects, renderables, config, addLog, invoked, lastRender, lastUpdate>>

coordVars == <<coord, calc>>

scaleVars == <<scaleCall>>

barVars == <<bar, drawn, hit>>

lineVars == <<d3scales, lineChart, stroked>>

vars == <<schedVars, layers, evVars, poolVars, surfaceVars, chartVars, coordVars,
          scaleVars, barVars, lineVars>>

\* what an operation of one component leaves alone: the other components
RendererFrame == UNCHANGED <<evVars, poolVars, surfaceVars, chartVars, coordVars,
                 scaleVars, barVars, lineVars>>

EventsFrame == UNCHANGED <<schedVars, layers, poolVars, surfaceVars, chartVars, coordVars,
                 scaleVars, barVars, lineVars>>

PoolFrame == UNCHANGED <<schedVars, layers, evVars, surfaceVars, chartVars, coordVars,
                 scaleVars, barVars, lineVars>>

ChartFrame == UNCHANGED <<schedVars, layers, evVars, poolVars, coordVars, scaleVars, barVars, lineVars>>

\* ------------------------------------------------------------------------
\* Bounds of the model
\* ------------------------------------------------------------------------
MaxRequests == 4      \* requestAnimationFrame calls explored
NumListeners == 3     \* distinct listener functions
MaxTouches == 2       \* touch points of one TouchEvent
ExtraInvocations == 1 \* listener invocations of one dispatch beyond NumListeners
MaxListenerCalls == 2 \* on/off/destroy calls made by listeners during one dispatch
MaxObjects == 2       \* objects the pool's factory creates
PoolMaxSize == 2      \* the maxSize the explored pool is constructed with
MaxRenderables == 2   \* renderable objects created
MaxAdds == 3          \* Chart.add calls between construction/destroy and render
MaxSize == 2          \* largest logical width and height of a surface
MaxResizes == 2       \* CanvasRenderer.resize calls told apart by the resizes counter
Precision == 3        \* significand bits of the number format explored (a double has 53)
MaxCoord == 10        \* largest magnitude of a coordinate, size or margin passed in
MaxData == 3          \* largest dataset passed to computeDomain
MaxBars == 2          \* largest dataset of a BarChart

\* ------------------------------------------------------------------------
\* Shared helpers
\* ------------------------------------------------------------------------
Range(s) == {s[i] : i \in 1..Len(s)}

Last(s) == s[Len(s)]

\* `null` of an optional handle (handles are positive)
Null == 0

\* enum RenderLayer
RenderLayer_Background == 0
RenderLayer_Grid == 1
RenderLayer_Data == 2
RenderLayer_Interaction == 3
RenderLayer_Overlay == 4

\* the layer order used by initializeLayers and Chart.render
layerOrder == <<RenderLayer_Background, RenderLayer_Grid, RenderLayer_Data,
                RenderLayer_Interaction, RenderLayer_Overlay>>

\* ========================================================================
\* CanvasRenderer: frame scheduling
\* ========================================================================

\* window.cancelAnimationFrame(id): drops the pending callback with that
\* handle; a handle that is not pending (already run, or running) is a no-op.
cancelAnimationFrame(cbs, id) == SelectSeq(cbs, LAMBDA h : h # id)

\* No JavaScript of a frame is on the stack: top-level calls happen here.
Idle == running = Null /\ callbackHandles = <<>>

SchedInit ==
  /\ animationFrameId = Null
  /\ callbacks = <<>>
  /\ callbackHandles = <<>>
  /\ running = Null
  /\ nextHandle = 1
  /\ calls = <<>>
  /\ frameCalls = <<>>
  /\ ran = <<>>
  /\ executed = {}
  /\ voided = {}
  /\ rendererDestroyed = FALSE
  /\ lateCalls = {}

\* CanvasRenderer.scheduleRender(callback); the callback supplied by the call
\* is identified with the handle requestAnimationFrame returns for it.
scheduleRender ==
  /\ nextHandle <= MaxRequests
  /\ callbacks' = Append(IF animationFrameId # Null
                           THEN cancelAnimationFrame(callbacks, animationFrameId)
                           ELSE callbacks,
                         nextHandle)
  /\ animationFrameId' = nextHandle
  /\ nextHandle' = nextHandle + 1
  /\ calls' = Append(calls, nextHandle)
  /\ lateCalls' = IF rendererDestroyed THEN lateCalls \cup {nextHandle} ELSE lateCalls
  /\ UNCHANGED <<callbackHandles, running, frameCalls, ran, executed, voided,
                 rendererDestroyed>>

\* CanvasRenderer.cancelRender()
cancelRender ==
  /\ IF animationFrameId # Null
       THEN /\ callbacks' = cancelAnimationFrame(callbacks, animationFrameId)
            /\ animationFrameId' = Null
       ELSE UNCHANGED <<callbacks, animationFrameId>>
  /\ calls' = <<>>
  /\ voided' = voided \cup ((1..(nextHandle - 1)) \ executed)
  /\ UNCHANGED <<callbackHandles, running, nextHandle, frameCalls, ran, executed, lateCalls>>

\* CanvasRenderer.destroy(): cancelRender(), detach every canvas, layers.clear()
CanvasRenderer_destroy ==
  /\ cancelRender
  /\ layers' = {}
  /\ rendererDestroyed' = TRUE

\* ---- top-level calls ---------------------------------------------------
ScheduleRender == Idle /\ scheduleRender /\ UNCHANGED layers /\ RendererFrame

CancelRender == Idle /\ cancelRender /\ UNCHANGED <<layers, rendererDestroyed>> /\ RendererFrame

DestroyRenderer == Idle /\ layers # {} /\ CanvasRenderer_destroy /\ RendererFrame

\* ---- the browser runs the animation frame callbacks --------------------
\* A frame begins: the handles pending now are the ones this frame processes.
FrameFire ==
  /\ Idle
  /\ callbacks # <<>>
  /\ callbackHandles' = callbacks
  /\ frameCalls' = calls
  /\ calls' = <<>>
  /\ ran' = <<>>
  /\ UNCHANGED <<animationFrameId, callbacks, running, nextHandle, executed, voided, layers,
                 rendererDestroyed, lateCalls>>
  /\ RendererFrame

\* The next handle of the frame: its callback is invoked unless it was
\* cancelled meanwhile.  The invoked function is the arrow function of
\* scheduleRender, which first calls the supplied callback.
RunCallback ==
  /\ running = Null
  /\ callbackHandles # <<>>
  /\ LET h == Head(callbackHandles) IN
       /\ callbackHandles' = Tail(callbackHandles)
       /\ IF h \in Range(callbacks)
            THEN /\ callbacks' = cancelAnimationFrame(callbacks, h)
                 /\ running' = h
                 /\ ran' = Append(ran, h)
                 /\ executed' = executed \cup {h}
            ELSE UNCHANGED <<callbacks, running, ran, executed>>
  /\ UNCHANGED <<animationFrameId, nextHandle, calls, frameCalls, voided, layers,
                 rendererDestroyed, lateCalls>>
  /\ RendererFrame

\* The supplied callback, while it runs, calls scheduleRender again.
CallbackSchedules == running # Null /\ scheduleRender /\ UNCHANGED layers /\ RendererFrame

\* The supplied callback, while it runs, calls cancelRender.
CallbackCancels ==
  running # Null /\ cancelRender /\ UNCHANGED <<layers, rendererDestroyed>> /\ RendererFrame

\* The supplied callback returned: `this.animationFrameId = null`.
CallbackReturns ==
  /\ running # Null
  /\ animationFrameId' = Null
  /\ running' = Null
  /\ UNCHANGED <<callbacks, callbackHandles, nextHandle, calls, frameCalls, ran,
                 executed, voided, layers, rendererDestroyed, lateCalls>>
  /\ RendererFrame

\* handlers of the scheduler's specification
SchedNext ==
  \/ ScheduleRender
  \/ CancelRender
  \/ DestroyRenderer
  \/ FrameFire
  \/ RunCallback
  \/ CallbackSchedules
  \/ CallbackCancels
  \/ CallbackReturns

\* ========================================================================
\* EventManager
\* ========================================================================

\* the event types setupEventListeners subscribes to
eventTypes == <<"click", "mousemove", "mouseenter", "mouseleave", "mousedown",
                "mouseup", "touchstart", "touchmove", "touchend">>

\* The event types the exploration registers listeners for and fires: one
\* mouse type and one touch type (handleEvent treats all types alike).
ModelTypes == {"click", "touchend"}

\* listener functions, by identity
Listeners == 1..NumListeners

\* canvas.getBoundingClientRect(): origin of the canvas in client coordinates
rectLeft == 10
rectTop == 20

\* client coordinates a device event may carry
ClientPoints == {[x |-> 13, y |-> 25], [x |-> 40, y |-> 60]}

TouchLists == UNION {[1..n -> ClientPoints] : n \in 0..MaxTouches}

\* raw device events: a MouseEvent carries clientX/clientY, a TouchEvent a
\* list of touches
MouseEvents == {[class |-> "MouseEvent", client |-> <<p>>, touches |-> <<>>] : p \in ClientPoints}

TouchEvents == {[class |-> "TouchEvent", client |-> <<>>, touches |-> ts] : ts \in TouchLists}

RawEventsOf(type) == IF type = "click" THEN MouseEvents ELSE TouchEvents

\* getEventPoint without the `touches.length > 0` guard: a TouchEvent always
\* yields a point (the coordinates of a missing touch read as 0)
getEventPoint_anyTouchEvent(event) ==
  IF event.class = "MouseEvent"
    THEN <<[x |-> event.client[1].x - rectLeft, y |-> event.client[1].y - rectTop]>>
    ELSE IF Len(event.touches) > 0
           THEN <<[x |-> event.touches[1].x - rectLeft, y |-> event.touches[1].y - rectTop]>>
           ELSE <<[x |-> 0 - rectLeft, y |-> 0 - rectTop]>>

\* EventManager.getEventPoint(event): <<point>>, or <<>> for null
getEventPoint(event) ==
  IF event.class = "MouseEvent"
    THEN <<[x |-> event.client[1].x - rectLeft, y |-> event.client[1].y - rectTop]>>
    ELSE IF event.class = "TouchEvent" /\ Len(event.touches) > 0
           THEN <<[x |-> event.touches[1].x - rectLeft, y |-> event.touches[1].y - rectTop]>>
           ELSE <<>>

\* a collection that puts a new listener first instead of last
SetAdd_front(set, h) == IF h \in Range(set) THEN set ELSE <<h>> \o set

\* Set.prototype.add / delete on a Set kept as its insertion-ordered sequence
SetAdd(set, h) == IF h \in Range(set) THEN set ELSE Append(set, h)

SetDelete(set, h) == SelectSeq(set, LAMBDA e : e # h)

\* on() over an array instead of a Set: the handler is pushed every time
on_push(hs, type, handler) ==
  [t \in DOMAIN hs \cup {type} |->
     IF t = type
       THEN Append(IF type \in DOMAIN hs THEN hs[type] ELSE <<>>, handler)
       ELSE hs[t]]

\* EventManager.on(type, handler): the handlers map afterwards
on(hs, type, handler) ==
  [t \in DOMAIN hs \cup {type} |->
     IF t = type
       THEN SetAdd(IF type \in DOMAIN hs THEN hs[type] ELSE <<>>, handler)
       ELSE hs[t]]

\* EventManager.off(type, handler): the handlers map afterwards
off(hs, type, handler) ==
  IF type \in DOMAIN hs
    THEN [hs EXCEPT ![type] = SetDelete(@, handler)]
    ELSE hs

\* the empty Map
EmptyMap == [t \in {} |-> <<>>]

NoDispatch == [active |-> FALSE, type |-> "", pos |-> 0, current |-> 0,
               live |-> FALSE, set |-> <<>>, point |-> <<>>, calls |-> 0]

\* The Set the for-of loop of handleEvent iterates: the Set stored in the
\* map, or, once destroy() cleared the map, the Set object the loop still holds.
IterSet == IF dispatch.live THEN handlers[dispatch.type] ELSE dispatch.set

MaxInvocations == NumListeners + ExtraInvocations

EventsInit ==
  /\ canvasListeners = Range(eventTypes)
  /\ boundListeners = Range(eventTypes)
  /\ handlers = EmptyMap
  /\ dispatch = NoDispatch
  /\ registered = [t \in ModelTypes |-> {}]
  /\ before = [t \in ModelTypes |-> {}]
  /\ dupOn = <<>>
  /\ lastRaw = <<>>
  /\ handlersBefore = EmptyMap
  /\ invokedLog = <<>>
  /\ outcome = "none"
  /\ thrown = FALSE
  /\ destroyed = FALSE
  /\ invokedAfterDestroy = FALSE

\* the observations of the latest raw input are forgotten by an API call
ForgetRaw ==
  /\ lastRaw' = <<>>
  /\ handlersBefore' = EmptyMap
  /\ invokedLog' = <<>>
  /\ outcome' = "none"
  /\ thrown' = FALSE

\* ---- EventManager.on / off / destroy: effect on the manager ------------
onCall(type, h) ==
  /\ handlers' = on(handlers, type, h)
  /\ registered' = [registered EXCEPT ![type] = @ \cup {h}]
  /\ before' = IF h \in registered[type]
                 THEN before
                 ELSE [before EXCEPT ![type] = @ \cup {<<a, h>> : a \in registered[type]}]
  /\ dupOn' = IF h \in registered[type] THEN <<type>> ELSE <<>>
  /\ UNCHANGED <<canvasListeners, boundListeners, destroyed>>

offCall(type, h) ==
  /\ handlers' = off(handlers, type, h)
  /\ registered' = [registered EXCEPT ![type] = @ \ {h}]
  /\ before' = [before EXCEPT ![type] = {p \in @ : p[1] # h /\ p[2] # h}]
  /\ dupOn' = <<>>
  /\ UNCHANGED <<canvasListeners, boundListeners, destroyed>>

\* EventManager.destroy(): the raw listeners left on the canvas
destroy_canvasListeners(attached, bound) == attached \ bound

EventManager_destroy ==
  /\ canvasListeners' = destroy_canvasListeners(canvasListeners, boundListeners)
  /\ boundListeners' = {}
  /\ handlers' = EmptyMap
  /\ registered' = [t \in ModelTypes |-> {}]
  /\ before' = [t \in ModelTypes |-> {}]
  /\ dupOn' = <<>>
  /\ destroyed' = TRUE

\* ---- calls from top level (no dispatch in progress) --------------------
On(type, h) ==
  /\ ~dispatch.active
  /\ onCall(type, h)
  /\ ForgetRaw
  /\ UNCHANGED <<dispatch, invokedAfterDestroy>>
  /\ EventsFrame

Off(type, h) ==
  /\ ~dispatch.active
  /\ offCall(type, h)
  /\ ForgetRaw
  /\ UNCHANGED <<dispatch, invokedAfterDestroy>>
  /\ EventsFrame

DestroyEvents ==
  /\ ~dispatch.active
  /\ EventManager_destroy
  /\ ForgetRaw
  /\ UNCHANGED <<dispatch, invokedAfterDestroy>>
  /\ EventsFrame

\* ---- a raw input event on the canvas -----------------------------------
\* No raw listener of that type is attached: nothing of the manager runs.
RawEventUnheard(type) ==
  /\ ~dispatch.active
  /\ type \notin canvasListeners
  /\ lastRaw' = <<type, "", 0>>
  /\ handlersBefore' = handlers
  /\ invokedLog' = <<>>
  /\ outcome' = "unheard"
  /\ thrown' = FALSE
  /\ UNCHANGED <<canvasListeners, boundListeners, handlers, dispatch, registered,
                 before, dupOn, destroyed, invokedAfterDestroy>>
  /\ EventsFrame

\* The bound listener calls handleEvent(type, event): the code up to the
\* for-of loop over this.handlers.get(type).
RawEvent(type, event) ==
  /\ ~dispatch.active
  /\ type \in canvasListeners
  /\ lastRaw' = <<type, event.class, Len(event.touches)>>
  /\ handlersBefore' = handlers
  /\ invokedLog' = <<>>
  /\ thrown' = FALSE
  /\ LET point == getEventPoint(event) IN
       IF point = <<>>
         THEN /\ outcome' = "dropped"
              /\ dispatch' = NoDispatch
         ELSE IF type \notin DOMAIN handlers
                THEN /\ outcome' = "ok"
                     /\ dispatch' = NoDispatch
                ELSE /\ outcome' = "running"
                     /\ dispatch' = [active |-> TRUE, type |-> type, pos |-> 0,
                                     current |-> 0, live |-> TRUE, set |-> <<>>,
                                     point |-> point, calls |-> 0]
  /\ UNCHANGED <<canvasListeners, boundListeners, handlers, registered, before,
                 dupOn, destroyed, invokedAfterDestroy>>
  /\ EventsFrame

\* for (const handler of handlers): the next listener is called
ListenerEnter ==
  /\ dispatch.active
  /\ dispatch.current = 0
  /\ dispatch.pos < Len(IterSet)
  /\ Len(invokedLog) < MaxInvocations
  /\ LET h == IterSet[dispatch.pos + 1] IN
       /\ dispatch' = [dispatch EXCEPT !.pos = @ + 1, !.current = h]
       /\ invokedLog' = Append(invokedLog, h)
  /\ invokedAfterDestroy' = (invokedAfterDestroy \/ destroyed)
  /\ UNCHANGED <<canvasListeners, boundListeners, handlers, registered, before,
                 dupOn, lastRaw, handlersBefore, outcome, thrown, destroyed>>
  /\ EventsFrame

\* the listener returns and the loop goes on
ListenerReturns ==
  /\ dispatch.active
  /\ dispatch.current # 0
  /\ dispatch' = [dispatch EXCEPT !.current = 0]
  /\ UNCHANGED <<canvasListeners, boundListeners, handlers, registered, before,
                 dupOn, lastRaw, handlersBefore, invokedLog, outcome, thrown,
                 destroyed, invokedAfterDestroy>>
  /\ EventsFrame

\* the listener throws: a variant of handleEvent that catches and goes on
ListenerThrows_caught ==
  /\ dispatch.active
  /\ dispatch.current # 0
  /\ dispatch' = [dispatch EXCEPT !.current = 0]
  /\ thrown' = TRUE
  /\ UNCHANGED <<canvasListeners, boundListeners, handlers, registered, before,
                 dupOn, lastRaw, handlersBefore, invokedLog, outcome,
                 destroyed, invokedAfterDestroy>>
  /\ EventsFrame

\* the listener throws: handleEvent has no try/catch, the exception unwinds
\* the loop and leaves handleEvent
ListenerThrows ==
  /\ dispatch.active
  /\ dispatch.current # 0
  /\ dispatch' = NoDispatch
  /\ thrown' = TRUE
  /\ outcome' = "threw"
  /\ UNCHANGED <<canvasListeners, boundListeners, handlers, registered, before,
                 dupOn, lastRaw, handlersBefore, invokedLog,
                 destroyed, invokedAfterDestroy>>
  /\ EventsFrame

\* the for-of loop is exhausted: handleEvent returns
DispatchEnd ==
  /\ dispatch.active
  /\ dispatch.current = 0
  /\ dispatch.pos >= Len(IterSet)
  /\ dispatch' = NoDispatch
  /\ outcome' = "ok"
  /\ UNCHANGED <<canvasListeners, boundListeners, handlers, registered, before,
                 dupOn, lastRaw, handlersBefore, invokedLog, thrown,
                 destroyed, invokedAfterDestroy>>
  /\ EventsFrame

\* ---- calls made by the listener that is running ------------------------
\* Deleting an entry the iterator has passed leaves the iterator at the same
\* remaining entries.
PosAfterDelete(set, pos, h) ==
  IF \E i \in 1..pos : i <= Len(set) /\ set[i] = h THEN pos - 1 ELSE pos

ListenerCallsOn(type, h) ==
  /\ dispatch.active
  /\ dispatch.current # 0
  /\ dispatch.calls < MaxListenerCalls
  /\ onCall(type, h)
  /\ dispatch' = [dispatch EXCEPT !.calls = @ + 1]
  /\ UNCHANGED <<lastRaw, handlersBefore, invokedLog, outcome, thrown,
                 invokedAfterDestroy>>
  /\ EventsFrame

ListenerCallsOff(type, h) ==
  /\ dispatch.active
  /\ dispatch.current # 0
  /\ dispatch.calls < MaxListenerCalls
  /\ offCall(type, h)
  /\ dispatch' = IF dispatch.live /\ type = dispatch.type
                   THEN [dispatch EXCEPT !.pos = PosAfterDelete(handlers[type], @, h),
                                         !.calls = @ + 1]
                   ELSE [dispatch EXCEPT !.calls = @ + 1]
  /\ UNCHANGED <<lastRaw, handlersBefore, invokedLog, outcome, thrown,
                 invokedAfterDestroy>>
  /\ EventsFrame

ListenerCallsDestroy ==
  /\ dispatch.active
  /\ dispatch.current # 0
  /\ dispatch.calls < MaxListenerCalls
  /\ EventManager_destroy
  /\ dispatch' = IF dispatch.live
                   THEN [dispatch EXCEPT !.live = FALSE, !.set = handlers[dispatch.type],
                                         !.calls = @ + 1]
                   ELSE [dispatch EXCEPT !.calls = @ + 1]
  /\ UNCHANGED <<lastRaw, handlersBefore, invokedLog, outcome, thrown,
                 invokedAfterDestroy>>
  /\ EventsFrame

\* handlers of the EventManager's specification: listeners return or throw
EventsNext ==
  \/ \E type \in ModelTypes, h \in Listeners : On(type, h)
  \/ \E type \in ModelTypes, h \in Listeners : Off(type, h)
  \/ DestroyEvents
  \/ \E type \in ModelTypes : RawEventUnheard(type)
  \/ \E type \in ModelTypes : \E event \in RawEventsOf(type) : RawEvent(type, event)
  \/ ListenerEnter
  \/ ListenerReturns
  \/ ListenerThrows
  \/ DispatchEnd

\* the same, with listeners that call on, off and destroy while they run
ReentrantNext ==
  \/ EventsNext
  \/ \E type \in ModelTypes, h \in Listeners : ListenerCallsOn(type, h)
  \/ \E type \in ModelTypes, h \in Listeners : ListenerCallsOff(type, h)
  \/ ListenerCallsDestroy

\* ========================================================================
\* ObjectPool (PointPool)
\* ========================================================================

\* PointPool's factory: () => ({ x: 0, y: 0 })
factory == [x |-> 0, y |-> 0]

\* PointPool's reset: (p) => { p.x = 0; p.y = 0; }
reset(obj) == [obj EXCEPT !.x = 0, !.y = 0]

\* values a holder writes into a Point
FieldValues == {0, 7}

PoolInit ==
  /\ heap = <<>>
  /\ pool = <<>>
  /\ lastAcquire = <<>>
  /\ holders = <<>>

\* ObjectPool.acquire(): pop a pooled object, else construct one
Acquire ==
  /\ IF Len(pool) > 0
       THEN /\ pool' = SubSeq(pool, 1, Len(pool) - 1)
            /\ heap' = heap
            /\ lastAcquire' = <<Last(pool), heap[Last(pool)]>>
            /\ holders' = [holders EXCEPT ![Last(pool)] = @ + 1]
       ELSE /\ Len(heap) < MaxObjects
            /\ pool' = pool
            /\ heap' = Append(heap, factory)
            /\ lastAcquire' = <<Len(heap) + 1, factory>>
            /\ holders' = Append(holders, 1)
  /\ PoolFrame

\* ObjectPool.release(obj) for an object the caller has a reference to
Release(o) ==
  /\ IF Len(pool) < PoolMaxSize
       THEN /\ heap' = [heap EXCEPT ![o] = reset(@)]
            /\ pool' = Append(pool, o)
       ELSE UNCHANGED <<heap, pool>>
  /\ lastAcquire' = <<>>
  /\ holders' = [holders EXCEPT ![o] = 0]
  /\ PoolFrame

\* a caller writes the fields of a Point it has a reference to
Mutate(o, vx, vy) ==
  /\ heap[o] # [x |-> vx, y |-> vy]
  /\ heap' = [heap EXCEPT ![o] = [x |-> vx, y |-> vy]]
  /\ lastAcquire' = <<>>
  /\ UNCHANGED <<pool, holders>>
  /\ PoolFrame

\* ObjectPool.clear()
PoolClear ==
  /\ pool # <<>>
  /\ pool' = <<>>
  /\ lastAcquire' = <<>>
  /\ UNCHANGED <<heap, holders>>
  /\ PoolFrame

PoolNext ==
  \/ Acquire
  \/ \E o \in 1..Len(heap) : Release(o)
  \/ \E o \in 1..Len(heap), vx \in FieldValues, vy \in FieldValues : Mutate(o, vx, vy)
  \/ PoolClear

\* ========================================================================
\* CanvasLayer and CanvasRenderer: the surfaces
\* ========================================================================
\* Numbers of pixels are whole; a device pixel ratio is kept in halves
\* (1 is 0.5, 2 is 1, 3 is 1.5, 4 is 2).  A bitmap is kept in cells of half
\* a physical pixel in each direction, so that the image of a whole logical
\* coordinate under a scale by any of these ratios is a whole cell boundary.

\* the device pixel ratios explored, in halves
DevicePixelRatios == {1, 2, 3, 4}

\* logical sizes a surface is constructed with or resized to
Sizes == 1..MaxSize

\* the transform of a context in its default state
IdentityTransform == [num |-> 1, den |-> 1]

\* context.scale(dpr, dpr) for a ratio in halves: the transform afterwards
\* (both axes carry the same factor num/den)
scale(t, ratio) == [num |-> t.num * ratio, den |-> t.den * 2]

\* `canvas.width = n`: the attribute is an unsigned long, so the number
\* assigned (here in halves) is truncated to a whole number of pixels
ToUnsignedLong(halves) == halves \div 2

\* the cells of a bitmap of the given physical size
Bitmap(c) == (0..(2 * c.width - 1)) \X (0..(2 * c.height - 1))

\* the cell boundary a logical coordinate is drawn at under transform t
Device(t, v) == (2 * v * t.num) \div t.den

\* the cells a logical rectangle covers under transform t
Covered(t, rect) ==
  (Device(t, rect.x)..(Device(t, rect.x + rect.width) - 1))
    \X (Device(t, rect.y)..(Device(t, rect.y + rect.height) - 1))

\* context.clearRect(x, y, w, h): the painted cells afterwards
clearRect(c, px, rect) == px \ Covered(c.transform, rect)

\* context.fillRect(x, y, w, h) with an opaque fill: the painted cells afterwards
fillRect(c, px, rect) == px \cup (Covered(c.transform, rect) \cap Bitmap(c))

\* Setting canvas.width or canvas.height resets the context to its default
\* state and the bitmap to transparent; the constructor and resize set both
\* and then scale the context.
\* resize() without the context.scale call
CanvasLayer_resize_noScale(c, width, height) ==
  [c EXCEPT !.styleWidth = width,
            !.styleHeight = height,
            !.width = ToUnsignedLong(width * c.dpr),
            !.height = ToUnsignedLong(height * c.dpr),
            !.transform = IdentityTransform]

\* CanvasLayer.resize(width, height): the surface afterwards
CanvasLayer_resize(c, width, height) ==
  [c EXCEPT !.styleWidth = width,
            !.styleHeight = height,
            !.width = ToUnsignedLong(width * c.dpr),
            !.height = ToUnsignedLong(height * c.dpr),
            !.transform = scale(IdentityTransform, c.dpr)]

\* new CanvasLayer({width, height, devicePixelRatio})
CanvasLayer_new(width, height, ratio) ==
  [styleWidth |-> width,
   styleHeight |-> height,
   width |-> ToUnsignedLong(width * ratio),
   height |-> ToUnsignedLong(height * ratio),
   dpr |-> ratio,
   transform |-> scale(IdentityTransform, ratio)]

\* an optional Rect argument: <<>> when omitted, <<rect>> when given
\* CanvasLayer.clear(rect?): the painted cells afterwards
CanvasLayer_clear(c, px, rectArg) ==
  IF rectArg # <<>>
    THEN clearRect(c, px, rectArg[1])
    ELSE clearRect(c, px, [x |-> 0, y |-> 0, width |-> c.width, height |-> c.height])

\* CanvasRenderer.getLayer(layer): the layer, or the Error it throws
getLayer(ls, layer) == IF layer \in ls THEN "CanvasLayer" ELSE "Error"

\* new CanvasRenderer({width, height, devicePixelRatio}): initializeLayers()
SurfaceInit(width, height, ratio) ==
  /\ renderer = [width |-> width, height |-> height, dpr |-> ratio]
  /\ layers = Range(layerOrder)
  /\ canvas = [l \in Range(layerOrder) |-> CanvasLayer_new(width, height, ratio)]
  /\ pixels = [l \in Range(layerOrder) |-> {}]
  /\ dirty = [l \in Range(layerOrder) |-> TRUE]
  /\ resizes = <<>>

\* CanvasRenderer.clearAll(): the painted cells of every live surface afterwards
clearAll(ls, cs, px) ==
  [l \in DOMAIN px |-> IF l \in ls THEN CanvasLayer_clear(cs[l], px[l], <<>>) ELSE px[l]]

\* what an operation on the surfaces leaves alone
SurfaceFrame == UNCHANGED <<schedVars, layers, evVars, poolVars, chartVars, coordVars,
                 scaleVars, barVars, lineVars>>

\* CanvasRenderer.resize(width, height): the fields and the surfaces afterwards
CanvasRenderer_resize(r, width, height) == [r EXCEPT !.width = width, !.height = height]

resizeLayers(ls, cs, width, height) ==
  [l \in DOMAIN cs |-> IF l \in ls THEN CanvasLayer_resize(cs[l], width, height) ELSE cs[l]]

\* the bitmaps after their canvases were resized (a resized bitmap is blank)
resizeBitmaps(ls, px) == [l \in DOMAIN px |-> IF l \in ls THEN {} ELSE px[l]]

\* the dirty flags after an operation that sets isDirty on every live surface
allDirty(ls, dy) == [l \in DOMAIN dy |-> IF l \in ls THEN TRUE ELSE dy[l]]

CountResize(log, width, height) ==
  LET n == IF log = <<>> THEN 0 ELSE log[1] IN
    <<IF n < MaxResizes THEN n + 1 ELSE n, width, height>>

\* a caller calls renderer.resize(width, height)
Resize(width, height) ==
  /\ renderer' = CanvasRenderer_resize(renderer, width, height)
  /\ canvas' = resizeLayers(layers, canvas, width, height)
  /\ pixels' = resizeBitmaps(layers, pixels)
  /\ dirty' = allDirty(layers, dirty)
  /\ resizes' = CountResize(resizes, width, height)
  /\ SurfaceFrame

\* The surfaces the exploration draws on and clears directly: the one the
\* chart fills itself and one of the others (all are handled alike).
SurfaceLayers == {RenderLayer_Background, RenderLayer_Data}

\* a caller draws on a layer through renderer.getContext(layer), filling
\* the logical rectangle (0, 0, width, height)
Draw(layer) ==
  /\ getLayer(layers, layer) # "Error"
  /\ pixels' = [pixels EXCEPT ![layer] =
                  fillRect(canvas[layer], @,
                           [x |-> 0, y |-> 0, width |-> renderer.width,
                            height |-> renderer.height])]
  /\ UNCHANGED <<renderer, canvas, dirty, resizes>>
  /\ SurfaceFrame

\* the rectangles passed to clear: any with whole coordinates that starts
\* inside the largest surface
Rects == [x : 0..(MaxSize - 1), y : 0..(MaxSize - 1), width : 1..MaxSize, height : 1..MaxSize]

RectArgs == {<<>>} \cup {<<rect>> : rect \in Rects}

\* CanvasRenderer.clear(layer, rect?)
Clear(layer, rectArg) ==
  /\ getLayer(layers, layer) # "Error"
  /\ pixels' = [pixels EXCEPT ![layer] = CanvasLayer_clear(canvas[layer], @, rectArg)]
  /\ dirty' = [dirty EXCEPT ![layer] = TRUE]
  /\ UNCHANGED <<renderer, canvas, resizes>>
  /\ SurfaceFrame

\* CanvasRenderer.markDirty(layer)
MarkDirty(layer) ==
  /\ getLayer(layers, layer) # "Error"
  /\ dirty' = [dirty EXCEPT ![layer] = TRUE]
  /\ UNCHANGED <<renderer, canvas, pixels, resizes>>
  /\ SurfaceFrame

\* renderer.getLayer(layer).markClean()
MarkClean(layer) ==
  /\ getLayer(layers, layer) # "Error"
  /\ dirty' = [dirty EXCEPT ![layer] = FALSE]
  /\ UNCHANGED <<renderer, canvas, pixels, resizes>>
  /\ SurfaceFrame

ResizeNext ==
  \/ \E width \in Sizes, height \in Sizes : Resize(width, height)
  \/ \E layer \in SurfaceLayers : Draw(layer)

\* ========================================================================
\* Chart
\* ========================================================================

\* an optional property: <<>> when undefined, <<v>> when set to v.  The layer
\* properties explored: none, a layer below Data, Data itself, a layer above.
LayerArgs == {<<>>, <<RenderLayer_Grid>>, <<RenderLayer_Data>>, <<RenderLayer_Overlay>>}

VisibleArgs == {<<>>, <<TRUE>>, <<FALSE>>}

\* a default of RenderLayer.Grid instead of RenderLayer.Data
layerOf_defaultGrid(renderable) ==
  IF renderable.layer = <<>> THEN RenderLayer_Grid ELSE renderable.layer[1]

\* Chart.add: `renderable.layer ?? RenderLayer.Data`
layerOf(renderable) ==
  IF renderable.layer = <<>> THEN RenderLayer_Data ELSE renderable.layer[1]

\* Chart.add(renderable): the renderables map afterwards
Chart_add(rs, objs, id) ==
  LET layer == layerOf(objs[id]) IN
    [l \in DOMAIN rs \cup {layer} |->
       IF l = layer
         THEN Append(IF layer \in DOMAIN rs THEN rs[layer] ELSE <<>>, id)
         ELSE rs[l]]

\* Chart.render: `component.visible !== false`
isVisible(component) == component.visible # <<FALSE>>

\* Chart.render: the render calls made for one layer, in order
renderLayer(rs, objs, layer) ==
  IF layer \in DOMAIN rs
    THEN SelectSeq(rs[layer], LAMBDA id : isVisible(objs[id]))
    ELSE <<>>

\* Chart.render: the render calls of the whole pass (for (const layer of layers))
renderPass(rs, objs) ==
  renderLayer(rs, objs, RenderLayer_Background) \o
  renderLayer(rs, objs, RenderLayer_Grid) \o
  renderLayer(rs, objs, RenderLayer_Data) \o
  renderLayer(rs, objs, RenderLayer_Interaction) \o
  renderLayer(rs, objs, RenderLayer_Overlay)

\* ChartConfig.margin's default
defaultMargin == [top |-> 20, right |-> 20, bottom |-> 40, left |-> 50]

\* object spread `{ ...a, ...b }` of two records kept as functions of their keys
spread(a, b) ==
  [k \in DOMAIN a \cup DOMAIN b |-> IF k \in DOMAIN b THEN b[k] ELSE a[k]]

\* ---- numbers ------------------------------------------------------------
\* A JavaScript number is a binary floating-point value; every sum and
\* difference is rounded to the nearest representable value, ties to the
\* even significand.  The explored format keeps Precision significand bits
\* and no fraction bits.
RECURSIVE Pow2(_)
Pow2(n) == IF n = 0 THEN 1 ELSE 2 * Pow2(n - 1)

Abs(v) == IF v < 0 THEN 0 - v ELSE v

\* the spacing of the representable values around a magnitude a
RECURSIVE Ulp(_, _)
Ulp(a, q) == IF a < q * Pow2(Precision) THEN q ELSE Ulp(a, 2 * q)

\* the representable value nearest to the real number v
fl(v) ==
  LET a == Abs(v)
      q == Ulp(a, 1)
      lo == (a \div q) * q
      r == a - lo
      m == IF 2 * r < q THEN lo
           ELSE IF 2 * r > q THEN lo + q
           ELSE IF (lo \div q) % 2 = 0 THEN lo ELSE lo + q
  IN IF v < 0 THEN 0 - m ELSE m

\* the `+` and `-` of two numbers
Plus(a, b) == fl(a + b)

Minus(a, b) == fl(a - b)

\* Math.max, Math.min
Math_max(a, b) == IF a >= b THEN a ELSE b

Math_min(a, b) == IF a <= b THEN a ELSE b

\* the numbers passed in as coordinates
Floats == {v \in (0 - MaxCoord)..MaxCoord : fl(v) = v}

Points == [x : Floats, y : Floats]

\* new CoordinateSystem({width, height, margin})
CoordinateSystem_new(width, height, margin) ==
  [width |-> width, height |-> height, margin |-> margin]

\* CoordinateSystem.resize(width, height)
CoordinateSystem_resize(cs, width, height) ==
  [cs EXCEPT !.width = width, !.height = height]

\* CoordinateSystem.setMargin(margin)
CoordinateSystem_setMargin(cs, margin) ==
  [cs EXCEPT !.margin = spread(cs.margin, margin)]

\* CoordinateSystem.getInnerWidth / getInnerHeight / getPlotBounds
getInnerWidth(cs) == Math_max(0, Minus(Minus(cs.width, cs.margin.left), cs.margin.right))

getInnerHeight(cs) == Math_max(0, Minus(Minus(cs.height, cs.margin.top), cs.margin.bottom))

getPlotBounds(cs) ==
  [x |-> cs.margin.left, y |-> cs.margin.top,
   width |-> getInnerWidth(cs), height |-> getInnerHeight(cs)]

\* CoordinateSystem.dataToScreen(point)
dataToScreen(cs, point) ==
  [x |-> Plus(cs.margin.left, point.x), y |-> Plus(cs.margin.top, point.y)]

\* screenToData that clamps the result to the plot area's origin
screenToData_clamped(cs, point) ==
  [x |-> Math_max(0, Minus(point.x, cs.margin.left)),
   y |-> Math_max(0, Minus(point.y, cs.margin.top))]

\* CoordinateSystem.screenToData(point)
screenToData(cs, point) ==
  [x |-> Minus(point.x, cs.margin.left), y |-> Minus(point.y, cs.margin.top)]

\* CoordinateSystem.isInPlotArea(point)
isInPlotArea(cs, point) ==
  LET plotBounds == getPlotBounds(cs) IN
    /\ point.x >= plotBounds.x
    /\ point.x <= Plus(plotBounds.x, plotBounds.width)
    /\ point.y >= plotBounds.y
    /\ point.y <= Plus(plotBounds.y, plotBounds.height)

\* clampToPlotArea with the bounds of Math.max and Math.min exchanged
clampToPlotArea_swapped(cs, point) ==
  LET plotBounds == getPlotBounds(cs) IN
    [x |-> Math_min(plotBounds.x,
                    Math_max(Plus(plotBounds.x, plotBounds.width), point.x)),
     y |-> Math_min(plotBounds.y,
                    Math_max(Plus(plotBounds.y, plotBounds.height), point.y))]

\* CoordinateSystem.clampToPlotArea(point)
clampToPlotArea(cs, point) ==
  LET plotBounds == getPlotBounds(cs) IN
    [x |-> Math_max(plotBounds.x,
                    Math_min(Plus(plotBounds.x, plotBounds.width), point.x)),
     y |-> Math_max(plotBounds.y,
                    Math_min(Plus(plotBounds.y, plotBounds.height), point.y))]

\* the sizes and margin insets a standalone coordinate system is given
Extents == {1, MaxCoord}

Insets == {0, MaxCoord}

\* new CoordinateSystem(config)
CoordInit(width, height, margin) ==
  /\ coord = CoordinateSystem_new(width, height, margin)
  /\ calc = <<>>

\* what a call on the coordinate system leaves alone
CoordFrame ==
  UNCHANGED <<schedVars, layers, evVars, poolVars, surfaceVars, chartVars, scaleVars, barVars, lineVars>>

\* the point-to-point methods, applied by name
Apply(op, cs, point) ==
  CASE op = "dataToScreen" -> dataToScreen(cs, point)
    [] op = "screenToData" -> screenToData(cs, point)
    [] op = "clampToPlotArea" -> clampToPlotArea(cs, point)

PointOps == {"dataToScreen", "screenToData", "clampToPlotArea"}

\* a caller calls one of the methods on a point
Call(op, point) ==
  /\ calc = <<>>
  /\ calc' = <<op, point, Apply(op, coord, point)>>
  /\ UNCHANGED coord
  /\ CoordFrame

\* the caller passes the result to a second method
CallOnResult(op) ==
  /\ Len(calc) = 3
  /\ calc' = calc \o <<op, Apply(op, coord, calc[3])>>
  /\ UNCHANGED coord
  /\ CoordFrame

\* coordinateSystem.resize(width, height)
CoordResize(width, height) ==
  /\ calc = <<>>
  /\ coord' = CoordinateSystem_resize(coord, width, height)
  /\ UNCHANGED calc
  /\ CoordFrame

\* coordinateSystem.setMargin({side: inset})
CoordSetMargin(side, inset) ==
  /\ calc = <<>>
  /\ coord' = CoordinateSystem_setMargin(coord, [k \in {side} |-> inset])
  /\ UNCHANGED calc
  /\ CoordFrame

CoordNext ==
  \/ \E op \in PointOps, point \in Points : Call(op, point)
  \/ \E op \in PointOps : CallOnResult(op)
  \/ \E width \in Extents, height \in Extents : CoordResize(width, height)
  \/ \E side \in DOMAIN defaultMargin, inset \in Insets : CoordSetMargin(side, inset)

\* new Chart({width, height}) without margin: the fields other than the
\* coordinate system (the renderer is SurfaceInit)
ChartFieldsInit(width, height) ==
  /\ objects = <<>>
  /\ renderables = EmptyMap
  /\ config = [width |-> width, height |-> height, margin |-> defaultMargin]
  /\ addLog = <<>>
  /\ invoked = <<>>
  /\ lastRender = "none"
  /\ lastUpdate = <<>>

\* new Chart({width, height}): config, then the CoordinateSystem built from it
ChartInit(width, height) ==
  /\ ChartFieldsInit(width, height)
  /\ CoordInit(width, height, defaultMargin)

\* chart.add(r) for a renderable r constructed with the given layer and
\* visible properties
AddNew(layerArg, visibleArg) ==
  /\ Len(addLog) < MaxAdds
  /\ Len(objects) < MaxRenderables
  /\ LET id == Len(objects) + 1
         objs == Append(objects, [layer |-> layerArg, visible |-> visibleArg])
     IN /\ objects' = objs
        /\ renderables' = Chart_add(renderables, objs, id)
        /\ addLog' = Append(addLog, id)
  /\ invoked' = <<>>
  /\ lastRender' = "none"
  /\ UNCHANGED <<config, lastUpdate, surfaceVars>>
  /\ ChartFrame

\* chart.add(r) for a renderable that was added before
AddAgain(id) ==
  /\ Len(addLog) < MaxAdds
  /\ renderables' = Chart_add(renderables, objects, id)
  /\ addLog' = Append(addLog, id)
  /\ invoked' = <<>>
  /\ lastRender' = "none"
  /\ UNCHANGED <<objects, config, lastUpdate, surfaceVars>>
  /\ ChartFrame

\* the owner of a renderable sets its visible property
SetVisible(id, visibleArg) ==
  /\ objects[id].visible # visibleArg
  /\ objects' = [objects EXCEPT ![id].visible = visibleArg]
  /\ invoked' = <<>>
  /\ lastRender' = "none"
  /\ UNCHANGED <<renderables, config, addLog, lastUpdate, surfaceVars>>
  /\ ChartFrame

\* the rectangle (0, 0, config.width, config.height) the background fill
\* covers; a renderable that draws is taken to fill the same rectangle
chartRect(cfg) == [x |-> 0, y |-> 0, width |-> cfg.width, height |-> cfg.height]

\* Chart.render() on live surfaces: the painted cells afterwards.  First
\* renderer.clearAll(), then the background fill, then the renderables.
renderBitmaps(cfg, ls, cs, px, rs, objs) ==
  [l \in DOMAIN px |->
     IF \/ l = RenderLayer_Background
        \/ renderLayer(rs, objs, l) # <<>>
       THEN fillRect(cs[l], clearAll(ls, cs, px)[l], chartRect(cfg))
       ELSE clearAll(ls, cs, px)[l]]

\* Chart.render().  With the surfaces gone (after destroy) getContext throws
\* before anything is drawn.
Render ==
  /\ IF getLayer(layers, RenderLayer_Background) # "Error"
       THEN /\ pixels' = renderBitmaps(config, layers, canvas, pixels, renderables, objects)
            /\ dirty' = allDirty(layers, dirty)
            /\ invoked' = renderPass(renderables, objects)
            /\ lastRender' = "ok"
       ELSE /\ UNCHANGED <<pixels, dirty>>
            /\ invoked' = <<>>
            /\ lastRender' = "error"
  /\ UNCHANGED <<renderer, canvas, resizes>>
  /\ UNCHANGED <<objects, renderables, config, addLog, lastUpdate>>
  /\ ChartFrame

\* an optional width or height of Chart.update's argument
SizeArgs == {<<>>} \cup {<<n>> : n \in Sizes}

\* the margins passed to Chart.update
Margins == {[top |-> 0, right |-> 0, bottom |-> 0, left |-> 0],
            [top |-> 1, right |-> 0, bottom |-> 2, left |-> 1]}

MarginArgs == {<<>>} \cup {<<m>> : m \in Margins}

\* Chart.update: this.config afterwards
configAfterUpdate(cfg, widthArg, heightArg, marginArg) ==
  LET sized == IF widthArg # <<>> \/ heightArg # <<>>
                 THEN [cfg EXCEPT !.width = IF widthArg # <<>> THEN widthArg[1] ELSE cfg.width,
                                  !.height = IF heightArg # <<>> THEN heightArg[1] ELSE cfg.height]
                 ELSE cfg
  IN IF marginArg # <<>>
       THEN [sized EXCEPT !.margin = spread(sized.margin, marginArg[1])]
       ELSE sized

\* Chart.update that leaves the coordinate system's size alone
coordAfterUpdate_noResize(cs, cfg, widthArg, heightArg, marginArg) ==
  IF marginArg # <<>> THEN CoordinateSystem_setMargin(cs, cfg.margin) ELSE cs

\* Chart.update: this.coordinateSystem afterwards, cfg being the updated config
coordAfterUpdate(cs, cfg, widthArg, heightArg, marginArg) ==
  LET sized == IF widthArg # <<>> \/ heightArg # <<>>
                 THEN CoordinateSystem_resize(cs, cfg.width, cfg.height)
                 ELSE cs
  IN IF marginArg # <<>> THEN CoordinateSystem_setMargin(sized, cfg.margin) ELSE sized

\* Chart.update(config): the size and margin changes, then render()
Update(widthArg, heightArg, marginArg) ==
  LET resized == widthArg # <<>> \/ heightArg # <<>>
      cfg == configAfterUpdate(config, widthArg, heightArg, marginArg)
      cv == IF resized THEN resizeLayers(layers, canvas, cfg.width, cfg.height) ELSE canvas
      px == IF resized THEN resizeBitmaps(layers, pixels) ELSE pixels
      dy == IF resized THEN allDirty(layers, dirty) ELSE dirty
  IN /\ config' = cfg
     /\ coord' = coordAfterUpdate(coord, cfg, widthArg, heightArg, marginArg)
     /\ renderer' = IF resized THEN CanvasRenderer_resize(renderer, cfg.width, cfg.height)
                               ELSE renderer
     /\ canvas' = cv
     /\ resizes' = IF resized THEN CountResize(resizes, cfg.width, cfg.height) ELSE resizes
     /\ IF getLayer(layers, RenderLayer_Background) # "Error"
          THEN /\ pixels' = renderBitmaps(cfg, layers, cv, px, renderables, objects)
               /\ dirty' = allDirty(layers, dy)
               /\ invoked' = renderPass(renderables, objects)
               /\ lastRender' = "ok"
          ELSE /\ pixels' = px
               /\ dirty' = dy
               /\ invoked' = <<>>
               /\ lastRender' = "error"
     /\ lastUpdate' = <<widthArg, heightArg, marginArg>>
     /\ UNCHANGED <<objects, renderables, addLog, calc>>
     /\ UNCHANGED <<schedVars, layers, evVars, poolVars, scaleVars, barVars, lineVars>>

UpdateNext ==
  \/ \E widthArg \in SizeArgs, heightArg \in SizeArgs, marginArg \in MarginArgs :
       Update(widthArg, heightArg, marginArg)
  \/ Render

\* the surfaces used directly and through the chart's render pass
SurfaceNext ==
  \/ \E layer \in SurfaceLayers : Draw(layer)
  \/ \E layer \in SurfaceLayers, rectArg \in RectArgs : Clear(layer, rectArg)
  \/ \E layer \in SurfaceLayers : MarkDirty(layer)
  \/ \E layer \in SurfaceLayers : MarkClean(layer)
  \/ Render

\* Chart.destroy(): renderer.destroy(), eventManager.destroy(), renderables.clear()
DestroyChart ==
  /\ layers # {}
  /\ CanvasRenderer_destroy
  /\ EventManager_destroy
  /\ UNCHANGED <<dispatch, lastRaw, handlersBefore, invokedLog, outcome, thrown,
                 invokedAfterDestroy>>
  /\ renderables' = EmptyMap
  /\ addLog' = <<>>
  /\ invoked' = <<>>
  /\ lastRender' = "none"
  /\ UNCHANGED <<objects, config, lastUpdate, surfaceVars, poolVars, coordVars, scaleVars,
                 barVars, lineVars>>

ChartNext ==
  \/ \E layerArg \in LayerArgs, visibleArg \in VisibleArgs : AddNew(layerArg, visibleArg)
  \/ \E id \in 1..Len(objects) : AddAgain(id)
  \/ \E id \in 1..Len(objects), visibleArg \in VisibleArgs : SetVisible(id, visibleArg)
  \/ Render
  \/ DestroyChart

\* ========================================================================
\* ScaleManager
\* ========================================================================

\* type ScaleType
ScaleTypes == {"linear", "log", "pow", "sqrt", "time", "band", "point", "ordinal"}

\* the types whose d3 scale has the nice and clamp methods
ContinuousTypes == {"linear", "log", "pow", "sqrt", "time"}

\* What an accessor returns for a datum: a number (n), NaN or null.  A Date
\* compares by its time value and is kept as that number.
Number(n) == [kind |-> "number", n |-> n]

NaN == [kind |-> "NaN", n |-> 0]

null == [kind |-> "null", n |-> 0]

Values == {Number(0 - 1), Number(0), Number(2), NaN, null}

\* `a > b` and `a < b` of two values that are not null (false with NaN)
Greater(a, b) == a.kind = "number" /\ b.kind = "number" /\ a.n > b.n

Less(a, b) == a.kind = "number" /\ b.kind = "number" /\ a.n < b.n

\* d3-array extent(values), from the i-th value on: <<min, max>>, or <<>> for
\* [undefined, undefined].  null and undefined are skipped, and so is every
\* value before the first that compares `>=` to itself.
RECURSIVE extentFrom(_, _, _)
extentFrom(values, i, acc) ==
  IF i > Len(values) THEN acc
  ELSE LET value == values[i] IN
    IF value.kind = "null" THEN extentFrom(values, i + 1, acc)
    ELSE IF acc = <<>>
      THEN extentFrom(values, i + 1, IF value.kind = "number" THEN <<value, value>> ELSE <<>>)
      ELSE extentFrom(values, i + 1,
                      <<IF Greater(acc[1], value) THEN value ELSE acc[1],
                        IF Less(acc[2], value) THEN value ELSE acc[2]>>)

extent(values) == extentFrom(values, 1, <<>>)

\* Array.from(new Set(values)): the distinct values in first-seen order
RECURSIVE unique(_)
unique(values) ==
  IF values = <<>> THEN <<>>
  ELSE LET init == unique(SubSeq(values, 1, Len(values) - 1))
           last == values[Len(values)]
       IN IF last \in Range(init) THEN init ELSE Append(init, last)

\* the accessor explored: (d) => d.value
accessor(datum, i) == datum.value

\* data.map((d, i) => accessor(d, i))
mapAccessor(data) == [i \in 1..Len(data) |-> accessor(data[i], i)]

\* computeDomain that answers an empty extent with a default domain
computeDomain_defaultDomain(data, scaleType) ==
  IF scaleType \in {"band", "point", "ordinal"}
    THEN <<"return", unique(mapAccessor(data))>>
    ELSE LET e == extent(mapAccessor(data)) IN
           IF e = <<>>
             THEN <<"return", <<Number(0), Number(1)>>>>
             ELSE <<"return", e>>

\* ScaleManager.computeDomain(data, accessor, scaleType): <<"return", domain>>
\* or <<"throw", message of the Error>>
computeDomain(data, scaleType) ==
  IF scaleType \in {"band", "point", "ordinal"}
    THEN <<"return", unique(mapAccessor(data))>>
    ELSE LET e == extent(mapAccessor(data)) IN
           IF e = <<>>
             THEN <<"throw", "Cannot compute domain: no valid data">>
             ELSE <<"return", e>>

\* the datasets explored
Datasets == UNION {[1..n -> [value : Values]] : n \in 0..MaxData}

\* the domain and range a d3 scale of the given type starts with
d3Default(type) ==
  [type |-> type,
   domain |-> IF type = "log" THEN <<1, 10>>
              ELSE IF type \in ContinuousTypes THEN <<0, 1>> ELSE <<>>,
   range |-> IF type = "ordinal" THEN <<>> ELSE <<0, 1>>,
   nice |-> FALSE,
   clamp |-> FALSE,
   padding |-> 0]

\* ScaleManager.createScale(config): <<"return", scale>> or <<"throw",
\* message>>.  Optional properties are <<>> or <<value>>.  d3's domain(),
\* range(), nice() and clamp() accept every argument; of nice() only the
\* fact that it was applied is kept, not the rounding of the bounds.
createScale(cfg) ==
  IF cfg.type \notin ScaleTypes
    THEN <<"throw", "Unknown scale type">>
    ELSE LET s0 == d3Default(cfg.type)
             s1 == IF cfg.type \in {"band", "point"} /\ cfg.padding # <<>>
                     THEN [s0 EXCEPT !.padding = cfg.padding[1]] ELSE s0
             s2 == IF cfg.domain # <<>> THEN [s1 EXCEPT !.domain = cfg.domain[1]] ELSE s1
             s3 == IF cfg.range # <<>> THEN [s2 EXCEPT !.range = cfg.range[1]] ELSE s2
             s4 == IF cfg.nice = <<TRUE>> /\ cfg.type \in ContinuousTypes
                     THEN [s3 EXCEPT !.nice = TRUE] ELSE s3
             s5 == IF cfg.clamp = <<TRUE>> /\ cfg.type \in ContinuousTypes
                     THEN [s4 EXCEPT !.clamp = TRUE] ELSE s4
         IN <<"return", s5>>

\* the bounds of the domains passed to createScale
DomainBounds == {0 - 10, 0, 1, 10}

ScaleConfigs ==
  [type : ScaleTypes \cup {"radial"},
   domain : {<<>>} \cup {<<<<a, b>>>> : a \in DomainBounds, b \in DomainBounds},
   range : {<<>>, <<<<0, 100>>>>},
   nice : {<<>>, <<TRUE>>},
   clamp : {<<>>},
   padding : {<<>>}]

ScaleInit == scaleCall = <<>>

ScaleFrame ==
  UNCHANGED <<schedVars, layers, evVars, poolVars, surfaceVars, chartVars, coordVars, barVars, lineVars>>

\* the calls explored
ScaleCalls ==
  {<<"computeDomain", <<data, scaleType>>>> : data \in Datasets, scaleType \in ScaleTypes}
    \cup {<<"createScale", cfg>> : cfg \in ScaleConfigs}

\* ScaleManager.computeDomain(data, (d) => d.value, scaleType) is executed
ComputeDomain ==
  /\ Len(scaleCall) = 2
  /\ scaleCall[1] = "computeDomain"
  /\ scaleCall' = Append(scaleCall, computeDomain(scaleCall[2][1], scaleCall[2][2]))
  /\ ScaleFrame

\* ScaleManager.createScale(config) is executed
CreateScale ==
  /\ Len(scaleCall) = 2
  /\ scaleCall[1] = "createScale"
  /\ scaleCall' = Append(scaleCall, createScale(scaleCall[2]))
  /\ ScaleFrame

ScaleNext ==
  \/ ComputeDomain
  \/ CreateScale

\* ========================================================================
\* BarChart
\* ========================================================================
\* Scales as the chart uses them: a band scale maps the keys of its domain
\* to start + step * index and anything else to undefined, and has a
\* bandwidth; a continuous scale maps a number v to offset + factor * v.
\* An undefined result is <<>>, a number n is <<n>>.
bandScale == [kind |-> "band", domain |-> <<1, 2>>, start |-> 0, step |-> 20, bandwidth |-> 20]

linearScale == [kind |-> "linear", offset |-> 8, factor |-> 0 - 2]

\* this.config.xScale(v) / this.config.yScale(v)
applyScale(sc, v) ==
  IF sc.kind = "band"
    THEN IF \E i \in 1..Len(sc.domain) : sc.domain[i] = v
           THEN <<sc.start + sc.step * ((CHOOSE i \in 1..Len(sc.domain) : sc.domain[i] = v) - 1)>>
           ELSE <<>>
    ELSE <<sc.offset + sc.factor * v>>

\* `'bandwidth' in scale && typeof scale.bandwidth === 'function'
\*    ? scale.bandwidth() : 0`
bandwidthOf(sc) == IF sc.kind = "band" THEN sc.bandwidth ELSE 0

\* barWidth * this.config.barPadding, the padding being kept in tenths
paddingOf(size, barPadding) == (size * barPadding) \div 10

\* BarChart.renderVerticalBar: <<rectangle filled>>, or <<>> on the early return
renderVerticalBar(b, xVal, yVal) ==
  LET x == applyScale(b.xScale, xVal)
      y == applyScale(b.yScale, yVal)
      y0 == applyScale(b.yScale, 0)
  IN IF x = <<>> \/ y = <<>> \/ y0 = <<>> THEN <<>>
     ELSE LET barWidth == bandwidthOf(b.xScale)
              barHeight == Abs(y0[1] - y[1])
              padding == paddingOf(barWidth, b.barPadding)
          IN <<[x |-> x[1] + padding \div 2, y |-> Math_min(y[1], y0[1]),
                width |-> barWidth - padding, height |-> barHeight]>>

\* BarChart.renderHorizontalBar: <<rectangle filled>>, or <<>> on the early return
renderHorizontalBar(b, xVal, yVal) ==
  LET y == applyScale(b.yScale, xVal)
      x == applyScale(b.xScale, 0)
      x1 == applyScale(b.xScale, yVal)
  IN IF x = <<>> \/ x1 = <<>> \/ y = <<>> THEN <<>>
     ELSE LET barHeight == bandwidthOf(b.yScale)
              barWidth == Abs(x1[1] - x[1])
              padding == paddingOf(barHeight, b.barPadding)
          IN <<[x |-> Math_min(x[1], x1[1]), y |-> y[1] + padding \div 2,
                width |-> barWidth, height |-> barHeight - padding]>>

\* the rectangle BarChart.render fills for the i-th datum, if any
renderBar(b, i) ==
  IF b.orientation = "vertical"
    THEN renderVerticalBar(b, b.data[i].key, b.data[i].value)
    ELSE renderHorizontalBar(b, b.data[i].key, b.data[i].value)

\* BarChart.render(ctx): the rectangles filled, by data index
BarChart_render(b) ==
  IF ~b.visible THEN [i \in {} |-> <<>>]
  ELSE [i \in {j \in 1..Len(b.data) : renderBar(b, j) # <<>>} |-> renderBar(b, i)[1]]

\* the test findBarAtPoint makes for the i-th datum
hitTest(b, i, x, y) ==
  /\ b.orientation = "vertical"
  /\ LET barX == applyScale(b.xScale, b.data[i].key)
         barY == applyScale(b.yScale, b.data[i].value)
         y0 == applyScale(b.yScale, 0)
     IN /\ barX # <<>> /\ barY # <<>> /\ y0 # <<>>
        /\ x >= barX[1]
        /\ x <= barX[1] + bandwidthOf(b.xScale)
        /\ y >= Math_min(barY[1], y0[1])
        /\ y <= Math_min(barY[1], y0[1]) + Abs(y0[1] - barY[1])

\* BarChart.findBarAtPoint(x, y): <<index>> of the first datum whose test
\* succeeds, or <<>> for null
findBarAtPoint(b, x, y) ==
  LET found == {i \in 1..Len(b.data) : hitTest(b, i, x, y)} IN
    IF found = {} THEN <<>> ELSE <<CHOOSE i \in found : \A j \in found : i <= j>>

\* the data explored: keys of the band domain and one outside it
Datums == [key : {1, 2, 3}, value : {0, 1, 3}]

BarDatasets == UNION {[1..n -> Datums] : n \in 0..MaxBars}

\* barPadding in tenths: none, the default 0.1, a half
BarPaddings == {0, 1, 5}

\* new BarChart({data, x: d => d.key, y: d => d.value, xScale, yScale,
\* barPadding, orientation}) with the band scale on the category axis
BarChart_new(data, barPadding, orientation) ==
  [data |-> data,
   xScale |-> IF orientation = "vertical" THEN bandScale ELSE linearScale,
   yScale |-> IF orientation = "vertical" THEN linearScale ELSE bandScale,
   barPadding |-> barPadding,
   orientation |-> orientation,
   visible |-> TRUE]

NotDrawn == [done |-> FALSE, rects |-> [i \in {} |-> <<>>]]

BarInit ==
  /\ bar = BarChart_new(<<>>, 1, "vertical")
  /\ drawn = NotDrawn
  /\ hit = <<>>

BarFrame ==
  UNCHANGED <<schedVars, layers, evVars, poolVars, surfaceVars, chartVars, coordVars, scaleVars, lineVars>>

\* barChart.render(ctx)
BarRender ==
  /\ ~drawn.done
  /\ drawn' = [done |-> TRUE, rects |-> BarChart_render(bar)]
  /\ hit' = <<>>
  /\ UNCHANGED bar
  /\ BarFrame

\* the points hit-tested: on, inside and outside the edges of the bars
HitXs == {0, 1, 10, 19, 20, 21, 30, 41}

HitYs == {1, 2, 5, 8, 9}

\* barChart.findBarAtPoint(x, y)
FindBarAtPoint(x, y) ==
  /\ hit' = <<x, y, findBarAtPoint(bar, x, y)>>
  /\ UNCHANGED <<bar, drawn>>
  /\ BarFrame

\* barChart.setVisible(visible)
BarSetVisible(visible) ==
  /\ bar.visible # visible
  /\ bar' = [bar EXCEPT !.visible = visible]
  /\ drawn' = NotDrawn
  /\ hit' = <<>>
  /\ BarFrame

BarNext ==
  \/ BarRender
  \/ \E x \in HitXs, y \in HitYs : FindBarAtPoint(x, y)
  \/ \E visible \in BOOLEAN : BarSetVisible(visible)

\* ========================================================================
\* LineChart
\* ========================================================================
\* the scale objects of the program, by identity; the chart's config holds
\* references to them, and so may its creator
ScaleIds == {"s1", "s2"}

\* the domains and ranges given to the scales
LineDomains == {<<0, 1>>, <<0, 2>>}

LineRanges == {<<0, 2>>, <<4, 0>>}

\* the config of ScaleManager.createScale({type: 'linear', domain, range})
linearConfig(domain, range) ==
  [type |-> "linear", domain |-> <<domain>>, range |-> <<range>>,
   nice |-> <<>>, clamp |-> <<>>, padding |-> <<>>]

\* ScaleManager.updateDomain(scale, domain): scale.domain(domain) sets the
\* domain of the scale object itself
updateDomain(scales, id, domain) == [scales EXCEPT ![id].domain = domain]

\* ScaleManager.updateRange(scale, range): scale.range(range) sets the range
\* of the scale object itself
updateRange(scales, id, range) == [scales EXCEPT ![id].range = range]

\* this.config.xScale(xVal) / this.config.yScale(yVal) of an unclamped linear
\* scale: the range interpolated at the position of v in the domain, and the
\* middle of the range when the domain is a single value.  The domains and
\* ranges explored make every quotient exact.
callScale(s, v) ==
  LET d0 == s.domain[1]
      d1 == s.domain[2]
      r0 == s.range[1]
      r1 == s.range[2]
  IN IF d1 = d0 THEN r0 + (r1 - r0) \div 2
     ELSE r0 + ((v - d0) * (r1 - r0)) \div (d1 - d0)

\* line().x(..).y(..).curve(curveLinear).defined(() => true)(data): the
\* path commands, M to the first point and L to each later one; null, kept
\* as <<>>, when there is no point
lineGenerator(data, xScale, yScale) ==
  [i \in 1..Len(data) |->
     <<IF i = 1 THEN "M" ELSE "L", callScale(xScale, data[i].x), callScale(yScale, data[i].y)>>]

\* LineChart.computePath(), reading the scale objects as they are now
computePath(lc, scales) ==
  [lc EXCEPT !.path = lineGenerator(lc.data, scales[lc.xScale], scales[lc.yScale])]

\* new LineChart({data, x: d => d.x, y: d => d.y, xScale, yScale})
LineChart_new(data, xScale, yScale, scales) ==
  computePath([data |-> data, xScale |-> xScale, yScale |-> yScale,
               visible |-> TRUE, path |-> <<>>], scales)

\* LineChart.updateData(data)
updateData(lc, data, scales) == computePath([lc EXCEPT !.data = data], scales)

\* LineChart.updateScales(xScale, yScale)
updateScales(lc, xScale, yScale, scales) ==
  computePath([lc EXCEPT !.xScale = xScale, !.yScale = yScale], scales)

\* LineChart.render(ctx) with the default fill 'none': the early return, or
\* ctx.stroke(new Path2D(this.path))
LineChart_render(lc) ==
  IF ~lc.visible \/ lc.path = <<>> THEN <<"return">> ELSE <<"stroke", lc.path>>

\* the data explored
LinePoints == {[x |-> 0, y |-> 1], [x |-> 2, y |-> 0]}

LineDatasets == UNION {[1..n -> LinePoints] : n \in 0..MaxData}

\* two scales as createScale returns them and a chart of no data on them
LineInit ==
  /\ d3scales = [id \in ScaleIds |-> createScale(linearConfig(<<0, 1>>, <<0, 2>>))[2]]
  /\ lineChart = LineChart_new(<<>>, "s1", "s2", d3scales)
  /\ stroked = <<>>

LineFrame ==
  UNCHANGED <<schedVars, layers, evVars, poolVars, surfaceVars, chartVars, coordVars,
              scaleVars, barVars>>

\* lineChart.updateData(data)
LineUpdateData(data) ==
  /\ lineChart' = updateData(lineChart, data, d3scales)
  /\ stroked' = <<>>
  /\ UNCHANGED d3scales
  /\ LineFrame

\* lineChart.updateScales(xScale, yScale)
LineUpdateScales(xScale, yScale) ==
  /\ lineChart' = updateScales(lineChart, xScale, yScale, d3scales)
  /\ stroked' = <<>>
  /\ UNCHANGED d3scales
  /\ LineFrame

\* ScaleManager.updateDomain(scale, domain)
UpdateDomain(id, domain) ==
  /\ d3scales' = updateDomain(d3scales, id, domain)
  /\ stroked' = <<>>
  /\ UNCHANGED lineChart
  /\ LineFrame

\* ScaleManager.updateRange(scale, range)
UpdateRange(id, range) ==
  /\ d3scales' = updateRange(d3scales, id, range)
  /\ stroked' = <<>>
  /\ UNCHANGED lineChart
  /\ LineFrame

\* lineChart.setVisible(visible)
LineSetVisible(visible) ==
  /\ lineChart' = [lineChart EXCEPT !.visible = visible]
  /\ stroked' = <<>>
  /\ UNCHANGED d3scales
  /\ LineFrame

\* lineChart.render(ctx)
LineRender ==
  /\ stroked' = LineChart_render(lineChart)
  /\ UNCHANGED <<d3scales, lineChart>>
  /\ LineFrame

LineNext ==
  \/ \E data \in LineDatasets : LineUpdateData(data)
  \/ \E xScale \in ScaleIds, yScale \in ScaleIds : LineUpdateScales(xScale, yScale)
  \/ \E id \in ScaleIds, domain \in LineDomains : UpdateDomain(id, domain)
  \/ \E id \in ScaleIds, range \in LineRanges : UpdateRange(id, range)
  \/ \E visible \in BOOLEAN : LineSetVisible(visible)
  \/ LineRender

\* ========================================================================
\* Specifications
\* ========================================================================
\* The state after `new Chart({container, width: 2, height: 2})` in a window
\* whose devicePixelRatio is 1, with the module-level PointPool.
Init ==
  /\ SchedInit
  /\ ScaleInit
  /\ BarInit
  /\ SurfaceInit(2, 2, 2)
  /\ EventsInit
  /\ PoolInit
  /\ LineInit
  /\ ChartInit(2, 2)

\* The state after the same construction for any size and device pixel ratio.
InitAnySurface ==
  /\ SchedInit
  /\ ScaleInit
  /\ BarInit
  /\ EventsInit
  /\ PoolInit
  /\ LineInit
  /\ \E width \in Sizes, height \in Sizes :
       /\ ChartInit(width, height)
       /\ \E ratio \in DevicePixelRatios : SurfaceInit(width, height, ratio)

SpecSched == Init /\ [][SchedNext]_vars

SpecEvents == Init /\ [][EventsNext]_vars

SpecReentrant == Init /\ [][ReentrantNext]_vars

SpecPool == Init /\ [][PoolNext]_vars

SpecChart == Init /\ [][ChartNext]_vars

SpecResize == InitAnySurface /\ [][ResizeNext]_vars

SpecUpdate == InitAnySurface /\ [][UpdateNext]_vars

SpecSurface == InitAnySurface /\ [][SurfaceNext]_vars

\* The state after construction, with a standalone coordinate system of any
\* explored size and margin.
InitAnyCoord ==
  /\ SchedInit
  /\ ScaleInit
  /\ BarInit
  /\ SurfaceInit(2, 2, 2)
  /\ EventsInit
  /\ PoolInit
  /\ LineInit
  /\ ChartFieldsInit(2, 2)
  /\ \E width \in Extents, height \in Extents, margin \in [DOMAIN defaultMargin -> Insets] :
       CoordInit(width, height, margin)

SpecCoord == InitAnyCoord /\ [][CoordNext]_vars

\* The state after construction, with any explored ScaleManager call about
\* to be made.
InitAnyScaleCall ==
  /\ SchedInit
  /\ BarInit
  /\ SurfaceInit(2, 2, 2)
  /\ EventsInit
  /\ PoolInit
  /\ LineInit
  /\ ChartInit(2, 2)
  /\ scaleCall \in ScaleCalls

SpecScale == InitAnyScaleCall /\ [][ScaleNext]_vars

\* The state after construction, with a bar chart of any explored data,
\* padding and orientation.
InitAnyBarChart ==
  /\ SchedInit
  /\ ScaleInit
  /\ SurfaceInit(2, 2, 2)
  /\ EventsInit
  /\ PoolInit
  /\ LineInit
  /\ ChartInit(2, 2)
  /\ \E data \in BarDatasets, barPadding \in BarPaddings,
        orientation \in {"vertical", "horizontal"} :
       bar = BarChart_new(data, barPadding, orientation)
  /\ drawn = NotDrawn
  /\ hit = <<>>

SpecBar == InitAnyBarChart /\ [][BarNext]_vars

SpecLine == Init /\ [][LineNext]_vars

\* ------------------------------------------------------------------------
\* C1: when a frame has run, the callbacks it executed are exactly the one
\* supplied by the last scheduleRender call made before the frame began (and
\* not cancelled since); no earlier-supplied callback ran.
\* ------------------------------------------------------------------------
C1_OnlyLastCallbackRuns ==
  (Idle /\ frameCalls # <<>>) => ran = <<Last(frameCalls)>>

\* ------------------------------------------------------------------------
\* C2: at most one render callback is pending in the animation-frame queue.
\* ------------------------------------------------------------------------
C2_AtMostOnePending == Len(callbacks) <= 1

\* ------------------------------------------------------------------------
\* C3: no callback passed to scheduleRender before a cancelRender() or
\* destroy() returned is executed afterwards.
\* ------------------------------------------------------------------------
C3_CancelledNeverRuns == voided \cap executed = {}

\* the add() calls, in call order, of the visible renderables of one layer
\* (a renderable without a layer counts for the Data layer)
AddedVisible(layer) ==
  SelectSeq(addLog, LAMBDA id :
              /\ objects[id].visible # <<FALSE>>
              /\ layer = (IF objects[id].layer = <<>> THEN 2 ELSE objects[id].layer[1]))

Count(s, h) == Cardinality({i \in 1..Len(s) : s[i] = h})

\* ------------------------------------------------------------------------
\* C5: a raw event of kind K that yields a point and is dispatched to the end
\* invokes exactly the listeners registered for K (none registered only for
\* other kinds), each once, in the order of their registration by on().
\* ------------------------------------------------------------------------
C5_DispatchInRegistrationOrder ==
  (outcome = "ok" /\ lastRaw # <<>>) =>
    LET type == lastRaw[1] IN
      /\ Range(invokedLog) = registered[type]
      /\ Len(invokedLog) = Cardinality(registered[type])
      /\ \A i, j \in 1..Len(invokedLog) :
           i < j => <<invokedLog[i], invokedLog[j]>> \in before[type]

\* a click reached listeners 2 and 1, registered in that order, while
\* listener 3 is registered for touchend only
C5_Witness ==
  /\ outcome = "ok"
  /\ lastRaw # <<>>
  /\ lastRaw[1] = "click"
  /\ invokedLog = <<2, 1>>
  /\ 3 \in registered["touchend"]

\* ------------------------------------------------------------------------
\* C6: registrations are a set of (kind, listener) pairs: however often
\* on(K, h) was called, h is invoked exactly once per dispatched event of
\* kind K, and after off(K, h) it is not registered and not invoked.
\* ------------------------------------------------------------------------
C6_SetSemantics ==
  /\ \A t \in ModelTypes :
       (IF t \in DOMAIN handlers THEN Range(handlers[t]) ELSE {}) = registered[t]
  /\ lastRaw # <<>> =>
       \A h \in Listeners :
         /\ h \notin registered[lastRaw[1]] => Count(invokedLog, h) = 0
         /\ (h \in registered[lastRaw[1]] /\ outcome = "ok") => Count(invokedLog, h) = 1

\* the latest API call repeated on(K, h) for the only listener of kind K,
\* and an event of kind K was then dispatched to h
C6_Witness ==
  /\ dupOn # <<>>
  /\ outcome = "ok"
  /\ lastRaw # <<>>
  /\ lastRaw[1] = dupOn[1]
  /\ Cardinality(registered[dupOn[1]]) = 1
  /\ Len(invokedLog) = 1

\* ------------------------------------------------------------------------
\* C7: a raw touch event with zero touch points is dropped: no listener is
\* invoked, nothing is thrown, no dispatch starts, registrations are unchanged.
\* ------------------------------------------------------------------------
C7_ZeroTouchDropped ==
  (lastRaw # <<>> /\ lastRaw[2] = "TouchEvent" /\ lastRaw[3] = 0) =>
    /\ outcome = "dropped"
    /\ invokedLog = <<>>
    /\ ~thrown
    /\ ~dispatch.active
    /\ handlers = handlersBefore

\* a touchend without touches arrived while listeners were registered for it
C7_Witness ==
  /\ lastRaw # <<>>
  /\ lastRaw[1] = "touchend"
  /\ lastRaw[2] = "TouchEvent"
  /\ lastRaw[3] = 0
  /\ registered["touchend"] # {}
  /\ outcome = "dropped"

\* ------------------------------------------------------------------------
\* C8: after EventManager.destroy() has returned no listener is invoked.
\* ------------------------------------------------------------------------
C8_NoListenerAfterDestroy == ~invokedAfterDestroy

\* ------------------------------------------------------------------------
\* C9: an exception thrown by a listener leaves handleEvent: the dispatch is
\* over with the error, the listeners after the throwing one were not
\* invoked, and the registrations are as they were.
\* ------------------------------------------------------------------------
C9_ListenerExceptionPropagates ==
  thrown =>
    /\ outcome = "threw"
    /\ ~dispatch.active
    /\ Len(invokedLog) <= Len(handlersBefore[lastRaw[1]])
    /\ invokedLog = SubSeq(handlersBefore[lastRaw[1]], 1, Len(invokedLog))
    /\ handlers = handlersBefore

\* the first of several listeners threw and a later one was left out
C9_Witness ==
  /\ thrown
  /\ Len(invokedLog) = 1
  /\ Len(handlers[lastRaw[1]]) >= 2

\* ------------------------------------------------------------------------
\* C10: every object returned by ObjectPool.acquire() is in its canonical
\* reset state (PointPool: x = 0 and y = 0).
\* ------------------------------------------------------------------------
C10_AcquireReturnsCanonical ==
  lastAcquire # <<>> => lastAcquire[2] = [x |-> 0, y |-> 0]

\* ------------------------------------------------------------------------
\* C11 as stated: after any resize(w, h) calls every live layer has logical
\* size (w, h) of the latest call, physical size exactly (w * dpr, h * dpr)
\* and a context transform of exactly one scale by dpr.
\* ------------------------------------------------------------------------
C11_ResizeExactPhysicalSize ==
  resizes # <<>> =>
    \A l \in layers :
      /\ canvas[l].styleWidth = resizes[2]
      /\ canvas[l].styleHeight = resizes[3]
      /\ 2 * canvas[l].width = resizes[2] * renderer.dpr
      /\ 2 * canvas[l].height = resizes[3] * renderer.dpr
      /\ 2 * canvas[l].transform.num = renderer.dpr * canvas[l].transform.den

\* ------------------------------------------------------------------------
\* C11 amended: as stated, but the physical size is (w * dpr, h * dpr)
\* truncated to whole pixels; and a fill of the logical rectangle
\* (0, 0, w, h) paints the whole bitmap.
\* ------------------------------------------------------------------------
C11_ResizeGeometry ==
  resizes # <<>> =>
    \A l \in layers :
      /\ canvas[l].styleWidth = resizes[2]
      /\ canvas[l].styleHeight = resizes[3]
      /\ 2 * canvas[l].width <= resizes[2] * renderer.dpr
      /\ resizes[2] * renderer.dpr < 2 * canvas[l].width + 2
      /\ 2 * canvas[l].height <= resizes[3] * renderer.dpr
      /\ resizes[3] * renderer.dpr < 2 * canvas[l].height + 2
      /\ 2 * canvas[l].transform.num = renderer.dpr * canvas[l].transform.den
      /\ pixels[l] \in {{}, Bitmap(canvas[l])}

\* two resizes at device pixel ratio 1.5, the latest to width 1 (backing
\* width 1, not 1.5), and the data layer filled since
C11_Witness ==
  /\ resizes # <<>>
  /\ resizes[1] >= 2
  /\ resizes[2] = 1
  /\ renderer.dpr = 3
  /\ canvas[RenderLayer_Data].width = 1
  /\ pixels[RenderLayer_Data] # {}

\* ------------------------------------------------------------------------
\* C12: Chart.update applies every supplied width, height and margin to the
\* config, the renderer with its layers, and the coordinate system, and only
\* then renders: the three agree in width, height and margin at all times,
\* hold the supplied values after an update, and the render of the update
\* filled the background over the whole resized surface.
\* ------------------------------------------------------------------------
C12_UpdateKeepsAgreement ==
  /\ renderer.width = config.width
  /\ renderer.height = config.height
  /\ \A l \in layers : /\ canvas[l].styleWidth = config.width
                       /\ canvas[l].styleHeight = config.height
  /\ coord = [width |-> config.width, height |-> config.height, margin |-> config.margin]
  /\ lastUpdate # <<>> =>
       /\ lastUpdate[1] # <<>> => config.width = lastUpdate[1][1]
       /\ lastUpdate[2] # <<>> => config.height = lastUpdate[2][1]
       /\ lastUpdate[3] # <<>> => config.margin = lastUpdate[3][1]
       /\ lastRender = "ok"
       /\ pixels[RenderLayer_Background] = Bitmap(canvas[RenderLayer_Background])

\* a second size change, update({width: 1, margin}) on a chart of height 2:
\* the width and the margin were replaced, the height kept
C12_Witness ==
  /\ lastUpdate = <<<<1>>, <<>>, <<[top |-> 1, right |-> 0, bottom |-> 2, left |-> 1]>>>>
  /\ resizes # <<>>
  /\ resizes[1] >= 2
  /\ coord.width = 1
  /\ coord.height = 2
  /\ coord.margin.bottom = 2

\* ------------------------------------------------------------------------
\* C13: a Chart.render() call leaves the dirty flag of every layer as it
\* was and removes no paint from any layer other than the background (it
\* only adds what the background fill and the renderables draw); a layer
\* without a visible renderable keeps its content.
\* ------------------------------------------------------------------------
C13_RenderClearsNothing ==
  [][(Render /\ lastRender' = "ok") =>
       /\ dirty' = dirty
       /\ \A l \in Range(layerOrder) \ {RenderLayer_Background} :
            /\ pixels[l] \subseteq pixels'[l]
            /\ renderLayer(renderables, objects, l) = <<>> => pixels'[l] = pixels[l]]_vars

\* ------------------------------------------------------------------------
\* C14: once CanvasRenderer.destroy() has returned, getLayer (and with it
\* getContext, clear and markDirty) throws for every layer, and no callback
\* passed to scheduleRender afterwards is ever executed.
\* ------------------------------------------------------------------------
C14_UnusableAfterDestroy ==
  rendererDestroyed =>
    /\ \A l \in Range(layerOrder) : getLayer(layers, l) = "Error"
    /\ lateCalls \cap executed = {}

\* ------------------------------------------------------------------------
\* C15 as stated: for every coordinate system and every point p,
\* dataToScreen(screenToData(p)) = p and screenToData(dataToScreen(p)) = p.
\* ------------------------------------------------------------------------
C15_RoundTripExact ==
  Len(calc) = 5 =>
    /\ (calc[1] = "screenToData" /\ calc[4] = "dataToScreen") => calc[5] = calc[2]
    /\ (calc[1] = "dataToScreen" /\ calc[4] = "screenToData") => calc[5] = calc[2]

\* the result of the first call was computed without rounding
FirstCallExact ==
  \/ /\ calc[1] = "screenToData"
     /\ calc[3] = [x |-> calc[2].x - coord.margin.left, y |-> calc[2].y - coord.margin.top]
  \/ /\ calc[1] = "dataToScreen"
     /\ calc[3] = [x |-> coord.margin.left + calc[2].x, y |-> coord.margin.top + calc[2].y]

\* ------------------------------------------------------------------------
\* C15 amended: the round trips return p whenever the first translation is
\* computed without rounding; neither direction clamps (the first result is
\* then p shifted by the margin, wherever p lies).
\* ------------------------------------------------------------------------
C15_RoundTripWhenExact ==
  (Len(calc) = 5 /\ FirstCallExact) =>
    /\ (calc[1] = "screenToData" /\ calc[4] = "dataToScreen") => calc[5] = calc[2]
    /\ (calc[1] = "dataToScreen" /\ calc[4] = "screenToData") => calc[5] = calc[2]

\* a point left of and above the plot area, translated by a non-zero margin
\* without rounding and back
C15_Witness ==
  /\ Len(calc) = 5
  /\ calc[1] = "screenToData"
  /\ calc[4] = "dataToScreen"
  /\ coord.margin.left = MaxCoord
  /\ calc[2].x = 2
  /\ calc[3].x = 2 - MaxCoord
  /\ FirstCallExact

\* ------------------------------------------------------------------------
\* C16: with non-negative margins (also margins larger than the surface),
\* clampToPlotArea(p) lies in the closed plot rectangle, equals p when p is
\* already in the plot area, and clamping its result again changes nothing.
\* ------------------------------------------------------------------------
C16_ClampIdempotent ==
  (Len(calc) >= 3 /\ calc[1] = "clampToPlotArea"
     /\ \A side \in DOMAIN coord.margin : coord.margin[side] >= 0) =>
    /\ isInPlotArea(coord, calc[3])
    /\ isInPlotArea(coord, calc[2]) => calc[3] = calc[2]
    /\ (Len(calc) = 5 /\ calc[4] = "clampToPlotArea") => calc[5] = calc[3]

\* a point outside the plot area of a surface narrower than its margins
\* (inner width 0) was clamped onto it, and the result clamped again
C16_Witness ==
  /\ Len(calc) = 5
  /\ calc[1] = "clampToPlotArea"
  /\ calc[4] = "clampToPlotArea"
  /\ coord.width = 1
  /\ coord.margin.left = MaxCoord
  /\ getInnerWidth(coord) = 0
  /\ getInnerHeight(coord) > 0
  /\ ~isInPlotArea(coord, calc[2])
  /\ calc[3].x = MaxCoord

\* the least and the greatest of a non-empty sequence of numbers
MinOf(values) == CHOOSE m \in Range(values) : \A v \in Range(values) : m.n <= v.n

MaxOf(values) == CHOOSE m \in Range(values) : \A v \in Range(values) : m.n >= v.n

C18_LogDomainRejected ==
  (Len(scaleCall) = 3 /\ scaleCall[1] = "createScale" /\ scaleCall[2].type = "log"
     /\ scaleCall[2].domain # <<>>) =>
    LET a == scaleCall[2].domain[1][1]
        b == scaleCall[2].domain[1][2]
    IN (a = 0 \/ b = 0 \/ (a < 0 /\ b > 0) \/ (a > 0 /\ b < 0)) => scaleCall[3][1] = "throw"

\* the bitmap cells a logical rectangle stands for at device pixel ratio
\* ratio (in halves; a cell is half a physical pixel)
LogicalCells(rect, ratio) ==
  ((rect.x * ratio)..((rect.x + rect.width) * ratio - 1))
    \X ((rect.y * ratio)..((rect.y + rect.height) * ratio - 1))

\* ------------------------------------------------------------------------
\* C19: CanvasRenderer.clear(layer) removes the paint of the whole logical
\* surface (0, 0, width, height) of the layer, clear(layer, rect) removes
\* exactly the paint inside rect; either sets the layer's dirty flag and
\* leaves the content and the dirty flag of every other layer unchanged.
\* ------------------------------------------------------------------------
C19_ClearExtent ==
  [][\A layer \in SurfaceLayers, rectArg \in RectArgs :
       Clear(layer, rectArg) =>
         LET rect == IF rectArg # <<>> THEN rectArg[1]
                     ELSE [x |-> 0, y |-> 0, width |-> renderer.width,
                           height |-> renderer.height]
         IN /\ pixels'[layer] = pixels[layer] \ LogicalCells(rect, renderer.dpr)
            /\ dirty'[layer]
            /\ \A l \in Range(layerOrder) \ {layer} :
                 pixels'[l] = pixels[l] /\ dirty'[l] = dirty[l]]_vars

\* the point (x, y) lies in the closed rectangle
InRect(rect, x, y) ==
  /\ x >= rect.x /\ x <= rect.x + rect.width
  /\ y >= rect.y /\ y <= rect.y + rect.height

\* ------------------------------------------------------------------------
\* C20: findBarAtPoint(x, y) returns the first bar, in data order, whose
\* rectangle as filled by render contains (x, y), and null when no filled
\* rectangle contains the point.
\* ------------------------------------------------------------------------
C20_HitTestInvertsRender ==
  (drawn.done /\ hit # <<>>) =>
    LET inside == {i \in DOMAIN drawn.rects : InRect(drawn.rects[i], hit[1], hit[2])} IN
      hit[3] = IF inside = {} THEN <<>>
               ELSE <<CHOOSE i \in inside : \A j \in inside : i <= j>>

\* ------------------------------------------------------------------------
\* C21: LineChart.render always draws the path derived from the chart's
\* current data and the current mapping of its scales: after any sequence of
\* updateData, updateScales, ScaleManager.updateDomain and
\* ScaleManager.updateRange calls on the scales the chart holds, the cached
\* path equals the path recomputed from the current state, and a render that
\* strokes a path strokes that one.
C21_RenderDrawsCurrentPath ==
  LET current == lineGenerator(lineChart.data, d3scales[lineChart.xScale],
                               d3scales[lineChart.yScale])
  IN /\ lineChart.path = current
     /\ Len(stroked) = 2 => stroked[2] = current

\* ------------------------------------------------------------------------
\* C22: the dispatch of a single raw event terminates and invokes each
\* listener at most once, even when listeners call on() or off() for the
\* same event kind while the dispatch runs: at every point of a dispatch no
\* listener occurs twice among the invocations made so far, so a dispatch
\* makes at most as many invocations as there are listeners.
C22_EachListenerAtMostOnce ==
  \A h \in Listeners : Count(invokedLog, h) <= 1

\* ------------------------------------------------------------------------
\* C23: ObjectPool never hands the same object to two holders at once and
\* never grows past its bound: after any sequence of acquire and release
\* calls, releasing an object twice included, the pool holds at most maxSize
\* entries, holds no object twice, and no object was returned by two
\* acquire() calls with no release of it in between.
C23_NoSharedObject ==
  /\ Len(pool) <= PoolMaxSize
  /\ \A i, j \in 1..Len(pool) : i # j => pool[i] # pool[j]
  /\ \A o \in 1..Len(holders) : holders[o] <= 1

====
